---- MODULE Spec2Model ----
(***************************************************************************)
(* Document ingestion of the IOSP repository: the Celery tasks of          *)
(* apps/documents/tasks.py (process_document, chunk_document_text,         *)
(* create_document_embeddings, reprocess_document), the synchronous        *)
(* RAGService.process_document of apps/rag/services.py and the process     *)
(* endpoint of apps/documents/views.py, over one Document row and its      *)
(* DocumentChunk rows.                                                     *)
(*                                                                         *)
(* A text is a sequence of one-character strings.  The chunk loop is       *)
(* modelled one iteration per step, so that a loop that makes no progress  *)
(* is a cycle of the state graph and a run that stops part-way leaves the  *)
(* rows it had created.                                                    *)
(***************************************************************************)
EXTENDS Integers, Sequences, FiniteSets, TLC

\* ------------------------------------------------------------------ bounds

\* Longest file text of the pipeline specifications.
MaxFileLen == 3
\* Longest text of the chunker specification.
MaxTextLen == 8
\* Largest chunk_size and overlap the chunker specification passes.
MaxChunkSize == 7
MaxOverlap == 7
\* Most iterations of the chunk loop the model follows: more than any text
\* of the model needs when every iteration moves start forward.
MaxIterations == 10
\* Most chunks the LangChain splitter of RAGService returns.
MaxRagChunks == 1
\* Most records the vector store of the model holds.
MaxVectors == 2
\* Scaled-down stand-ins for the defaults chunk_size=1000, overlap=200 of
\* chunk_document_text, which process_document never overrides.
DefaultChunkSize == 2
DefaultOverlap == 1

\* ------------------------------------------------------- program constants

\* @shared_task(max_retries=3) of process_document.
max_retries == 3
\* str(e)[:500], scaled to the model's short messages.
ErrorMessageLimit == 2

\* ------------------------------------------------------------------- texts

\* The characters of the chunker specification's texts: one that is not
\* whitespace and ends a sentence when a space follows it, and the space.
Chars == {".", " "}
\* The characters of a file of the pipeline specifications.
FileChars == {"a", " "}
\* What str.strip() removes.
Whitespace == {" ", "\t", "\n", "\r", "\f"}

\* The sentence-ending markers, in the order the loop tries them.  Over
\* Chars only the first can occur.
Separators ==
    << <<".", " ">>, <<".", "\n">>, <<"?", " ">>, <<"?", "\n">>,
       <<"!", " ">>, <<"!", "\n">> >>

Min(a, b) == IF a < b THEN a ELSE b
Max(a, b) == IF a > b THEN a ELSE b

\* The characters of the texts with two kinds of markers, and the length
\* of those texts.
MarkerChars == {".", "?", " "}
MaxMarkerLen == 10

\* All texts over Chars of length at most n.
TextsUpTo(n) == UNION {[1..k -> Chars] : k \in 0..n}

\* Python's s[i:j]: a negative index counts from the end, and both are
\* clamped into 0..len(s).
PyIndex(k, n) == IF k < 0 THEN Max(k + n, 0) ELSE Min(k, n)
PySlice(s, i, j) ==
    LET lo == PyIndex(i, Len(s))
        hi == PyIndex(j, Len(s))
    IN  IF lo < hi THEN SubSeq(s, lo + 1, hi) ELSE << >>

\* The positions of the text that text[start:end] selects.
Positions(text, start, end) ==
    {p \in 0..(Len(text) - 1) :
        PyIndex(start, Len(text)) <= p /\ p < PyIndex(end, Len(text))}

\* Python's s.rfind(sep): the highest 0-based index at which sep occurs
\* in s, or -1.
RFind(s, sep) ==
    LET hits == {i \in 0..(Len(s) - Len(sep)) :
                    SubSeq(s, i + 1, i + Len(sep)) = sep}
    IN  IF hits = {} THEN -1 ELSE CHOOSE i \in hits : \A j \in hits : j <= i

\* Python's s.strip().
RECURSIVE LStrip(_)
LStrip(s) == IF s # << >> /\ Head(s) \in Whitespace THEN LStrip(Tail(s)) ELSE s
RECURSIVE RStrip(_)
RStrip(s) ==
    IF s # << >> /\ s[Len(s)] \in Whitespace
    THEN RStrip(SubSeq(s, 1, Len(s) - 1)) ELSE s
Strip(s) == RStrip(LStrip(s))

\* str(e)[:500]
Truncate(msg) == SubSeq(msg, 1, Min(Len(msg), ErrorMessageLimit))

\* ----------------------------------------------------- the chunker's loop

\* Variant: of the separators found beyond chunk_size // 2, the one found
\* furthest into the window is taken.
SentenceEndFurthest(text, start, end, cs, k) ==
    LET found == {RFind(PySlice(text, start, end), Separators[j]) :
                     j \in k..Len(Separators)}
        beyond == {i \in found : i > cs \div 2}
    IN  IF beyond = {} THEN end
        ELSE start + (CHOOSE i \in beyond : \A j \in beyond : j <= i) + 2

\* The for loop over the separators: the first separator, in order, whose
\* last occurrence in the window lies beyond chunk_size // 2 moves end to
\* just after that occurrence.
RECURSIVE SentenceEnd(_, _, _, _, _)
SentenceEnd(text, start, end, cs, k) ==
    IF k > Len(Separators) THEN end
    ELSE LET sep == Separators[k]
             last_sep == RFind(PySlice(text, start, end), sep)
         IN  IF last_sep > cs \div 2
             THEN start + last_sep + Len(sep)
             ELSE SentenceEnd(text, start, end, cs, k + 1)

\* end, as the loop body has it when it slices the chunk.
WindowEnd(text, start, cs) ==
    LET end == start + cs
    IN  IF end < Len(text) THEN SentenceEnd(text, start, end, cs, 1) ELSE end

\* chunk_text = text[start:end].strip()
ChunkText(text, start, cs) == Strip(PySlice(text, start, WindowEnd(text, start, cs)))

\* Variant: the window always steps back by the overlap, also when it has
\* reached the end of the text.
NextStartNoJump(text, start, cs, ov) == WindowEnd(text, start, cs) - ov

\* Variant: the next window starts one character late.
NextStartLate(text, start, cs, ov) ==
    LET end == WindowEnd(text, start, cs)
    IN  IF end < Len(text) THEN end - ov + 1 ELSE Len(text)

\* Variant: the window steps back by one character more than the overlap.
NextStartWider(text, start, cs, ov) ==
    LET end == WindowEnd(text, start, cs)
    IN  IF end < Len(text) THEN end - ov - 1 ELSE Len(text)

\* start = end - overlap if end < len(text) else len(text)
NextStart(text, start, cs, ov) ==
    LET end == WindowEnd(text, start, cs)
    IN  IF end < Len(text) THEN end - ov ELSE Len(text)

\* ------------------------------------------------------------------ state

\* The ids process_document and reprocess_document are called with: the one
\* Document row of the model, and an id no row has.
DocIds == {"d1", "missing"}
\* Slots for executions of process_document.
MaxTasks == 1
Tasks == 1..MaxTasks
\* The longest file two executions at once are given.
MaxConcFileLen == 2
\* One slot more, for two executions that exist at once.
ConcTasks == 1..(MaxTasks + 1)

Supported == {"pdf", "docx", "txt", "md"}
\* The file types of the model: one that extract_document_text handles and
\* one it does not.
FileTypes == {"txt", "other"}

\* str(e) of the exceptions the model raises: an exception with no text
\* and one with more text than the failed branch keeps; the ValueError of
\* the extractor and the IntegrityError of the database have their own.
NoText == << >>
LongText == <<"e", "e", "e", "e">>
ExcTexts == {NoText, LongText}
UnsupportedText == <<"u">>
IntegrityText == <<"i">>

VARIABLES
    document,     \* the Document row d1: status, processing_progress, chunk_count, error_message
    file_type,    \* Document.file_type of d1
    file_text,    \* what the file of d1 holds
    rows,         \* the DocumentChunk rows of d1, in creation order
    tasks,        \* the executions of process_document
    rag,          \* the RAGService.process_document call in progress, if any
    chunk_size,   \* the chunk_size and overlap chunk_document_text is called with
    overlap,
    workers,      \* how many executions may be in progress at once
    reprocessed,  \* what the last call of reprocess_document returned
    completed_as, \* the rows and chunk_count at the last completion by process_document
    query,        \* the question being answered, if any: a call of a query view
    vectors       \* the records of the vector store, in the order they were added

vars == <<document, file_type, file_text, rows, tasks, rag, chunk_size, overlap,
          workers, reprocessed, completed_as, query, vectors>>

IdleTask ==
    [state |-> "none", doc_id |-> "d1", retries |-> 0, pc |-> "-",
     text_content |-> << >>, chunks |-> << >>, start |-> 0, chunk_index |-> 0,
     iterations |-> 0, covered |-> {}, embedding |-> "-", result |-> "-"]

\* A message on the queue, as process_document.delay(document_id) puts it.
Queued(d) == [IdleTask EXCEPT !.state = "queued", !.doc_id = d]

NewDocument ==
    [status |-> "pending", processing_progress |-> 0, chunk_count |-> 0,
     error_message |-> << >>]

\* What RAGService.query returns: answer, sources, confidence (in
\* hundredths).  NoResult stands for no result at all.
NoResult == [answer |-> "", sources |-> << >>, confidence |-> 0]
\* A Message row of role assistant, as AskQuestionView stores it.
NoMessage == [saved |-> FALSE, content |-> "", sources |-> << >>, confidence |-> 0]
\* A Response of a query view.
NoDebugMessage == [present |-> FALSE, text |-> << >>]
NoResponse ==
    [status |-> "-", error |-> "", debug_message |-> NoDebugMessage, result |-> NoResult]

\* No question is being answered.
IdleQuery ==
    [pc |-> "idle", view |-> "-", debug |-> FALSE, results |-> << >>,
     llm_calls |-> 0, result |-> NoResult, exc |-> << >>,
     message |-> NoMessage, response |-> NoResponse]

Running(t) == tasks[t].state = "running"
InProgress == Cardinality({t \in DOMAIN tasks : Running(t)}) + (IF rag.pc = "idle" THEN 0 ELSE 1)

\* DocumentSerializer.create: the row is created pending and process_document
\* is queued for it; when queueing fails the upload still succeeds.
Upload(slots) ==
    /\ document = NewDocument
    /\ file_type \in FileTypes
    /\ file_text \in UNION {[1..k -> FileChars] : k \in 0..MaxFileLen}
    /\ rows = << >>
    /\ \E queued \in BOOLEAN :
          tasks = [t \in slots |-> IF t = 1 /\ queued THEN Queued("d1") ELSE IdleTask]
    /\ rag = [pc |-> "idle", doc |-> NewDocument]
    /\ completed_as = [done |-> FALSE, contents |-> << >>, chunk_count |-> 0]
    /\ reprocessed = [id |-> "-", result |-> "-"]
    /\ query = IdleQuery
    /\ vectors = << >>

InitUpload == Upload(Tasks)

Init ==
    /\ InitUpload
    /\ chunk_size = DefaultChunkSize
    /\ overlap = DefaultOverlap
    /\ workers = 1

\* ------------------------------------------------- process_document (task)

Contents(rs) == [i \in 1..Len(rs) |-> rs[i].content]
Indices(rs) == [i \in 1..Len(rs) |-> rs[i].chunk_index]

\* Variant: the rows of the earlier run are left in place.
KeptRows(rs) == rs

\* DocumentChunk.objects.filter(document=document).delete()
CleanedRows(rs) == << >>

\* self.retry(exc=e) in the except block.  While request.retries is below
\* max_retries, Task.retry raises Retry and the execution is scheduled again
\* with one more retry counted.  Once they are used up, Task.retry raises
\* either MaxRetriesExceededError, which the handler turns into status
\* failed, or the exception it was given as exc, which leaves the handler
\* and ends the task: which of the two is Celery's doing, outside this
\* repository, and both are modelled.
RetryOutcomes(retries) ==
    IF retries < max_retries THEN {"Retry"} ELSE {"MaxRetriesExceededError", "exc"}

\* The locals of an execution that has left the function.
Left(tk) == [tk EXCEPT !.pc = "-", !.text_content = << >>, !.chunks = << >>,
                       !.start = 0, !.chunk_index = 0, !.iterations = 0,
                       !.covered = {},
                       !.embedding = "-"]

\* Variant: the failed branch stores str(e) whole.
FailedMessageWhole(msg) == msg

\* What the failed branch stores: str(e)[:500].
FailedMessage(msg) == Truncate(msg)

\* The except block of process_document for execution t and exception text msg.
Handle(t, msg, doc) ==
    \E outcome \in RetryOutcomes(tasks[t].retries) :
       \/ /\ outcome = "Retry"
          /\ tasks' = [tasks EXCEPT ![t] = [Left(@) EXCEPT !.state = "retry",
                                             !.retries = @ + 1,
                                             !.result = "retry"]]
          /\ document' = doc
       \/ /\ outcome = "MaxRetriesExceededError"
          /\ tasks' = [tasks EXCEPT ![t] = [Left(@) EXCEPT !.state = "done",
                                             !.result = "failed"]]
          /\ document' = [doc EXCEPT !.status = "failed",
                                     !.error_message = FailedMessage(msg)]
       \/ /\ outcome = "exc"
          /\ tasks' = [tasks EXCEPT ![t] = [Left(@) EXCEPT !.state = "done",
                                             !.result = "raised"]]
          /\ document' = doc

\* Variant: the missing row is treated like any other exception and the
\* execution scheduled again.
NotFoundRetried(tk) == [tk EXCEPT !.state = "retry", !.retries = @ + 1,
                                  !.result = "retry"]

\* except Document.DoesNotExist: return {'status': 'error', ...}; the
\* execution ends there.
NotFound(tk) == [tk EXCEPT !.state = "done", !.result = "error"]

\* A worker takes the execution up: Document.objects.get, then status
\* processing and progress 0 are saved.  An id with no row is answered
\* with an error result.
Begin(t) ==
    /\ tasks[t].state \in {"queued", "retry"}
    /\ InProgress < workers
    /\ IF tasks[t].doc_id # "d1"
       THEN /\ tasks' = [tasks EXCEPT ![t] = NotFound(@)]
            /\ UNCHANGED document
       ELSE /\ tasks' = [tasks EXCEPT ![t].state = "running", ![t].pc = "extract",
                                      ![t].result = "-",
                                      ![t].text_content = << >>,
                                      ![t].chunks = << >>,
                                      ![t].start = 0, ![t].chunk_index = 0,
                                      ![t].iterations = 0,
                                      ![t].covered = {}]
            /\ document' = [document EXCEPT !.status = "processing",
                                            !.processing_progress = 0]
    /\ UNCHANGED <<file_type, file_text, rows, rag, chunk_size, overlap, workers,
                   reprocessed, completed_as, query, vectors>>

\* extract_document_text, then _update_progress(document, 20).  A file type
\* outside the four handled raises ValueError; reading the file may fail.
Extract(t) ==
    /\ Running(t) /\ tasks[t].pc = "extract"
    /\ \/ /\ file_type \notin Supported
          /\ Handle(t, UnsupportedText, document)
       \/ /\ file_type \in Supported
          /\ \E msg \in ExcTexts : Handle(t, msg, document)
       \/ /\ file_type \in Supported
          /\ tasks' = [tasks EXCEPT ![t].pc = "chunk", ![t].text_content = file_text]
          /\ document' = [document EXCEPT !.processing_progress = 20]
    /\ UNCHANGED <<file_type, file_text, rows, rag, chunk_size, overlap, workers,
                   reprocessed, completed_as, query, vectors>>

\* chunk_document_text up to its loop: the document's rows are deleted and
\* the loop variables set.
ChunkClean(t) ==
    /\ Running(t) /\ tasks[t].pc = "chunk"
    /\ rows' = CleanedRows(rows)
    /\ tasks' = [tasks EXCEPT ![t].pc = "loop", ![t].chunks = << >>,
                              ![t].start = 0, ![t].chunk_index = 0,
                              ![t].iterations = 0, ![t].covered = {}]
    /\ UNCHANGED <<document, file_type, file_text, rag, chunk_size, overlap, workers,
                   reprocessed, completed_as, query, vectors>>

\* Variant: the index counts the iterations, so an empty chunk uses one up.
IndexByIteration(tk) == tk.iterations

\* The index the loop gives the chunk it creates.
CreatedIndex(tk) == tk.chunk_index

\* One iteration of the while loop.  Each entry of chunks also records the
\* start and end its text was sliced with, and covered collects the
\* positions of the text the windows visited selected (neither is in the
\* code; they are kept for the properties of the windows).  DocumentChunk.objects.create raises
\* IntegrityError when a row of the document has the chunk_index already
\* (unique_together); an empty chunk creates nothing.
ChunkIteration(t) ==
    LET tk == tasks[t]
        text == tk.text_content
        chunk_text == ChunkText(text, tk.start, chunk_size)
        index == CreatedIndex(tk)
        end == WindowEnd(text, tk.start, chunk_size)
        window == Positions(text, tk.start, end)
        next == NextStart(text, tk.start, chunk_size, overlap)
    IN  /\ Running(t) /\ tk.pc = "loop"
        /\ tk.start < Len(text)
        /\ tk.iterations < MaxIterations
        /\ IF chunk_text = << >>
           THEN /\ tasks' = [tasks EXCEPT ![t].start = next, ![t].iterations = @ + 1,
                                          ![t].covered = @ \cup window]
                /\ UNCHANGED <<rows, document>>
           ELSE IF \E i \in 1..Len(rows) : rows[i].chunk_index = index
           THEN /\ Handle(t, IntegrityText, document)
                /\ UNCHANGED rows
           ELSE /\ rows' = Append(rows, [chunk_index |-> index, content |-> chunk_text,
                                         vector_id |-> ""])
                /\ tasks' = [tasks EXCEPT
                               ![t].chunks = Append(@, [index |-> index,
                                                        content |-> chunk_text,
                                                        start |-> tk.start,
                                                        end |-> end]),
                               ![t].chunk_index = @ + 1,
                               ![t].start = next, ![t].iterations = @ + 1,
                               ![t].covered = @ \cup window]
                /\ UNCHANGED document
        /\ UNCHANGED <<file_type, file_text, rag, chunk_size, overlap, workers,
                       reprocessed, completed_as, query, vectors>>

\* The loop ends, chunk_document_text returns, _update_progress(document, 40).
ChunkReturn(t) ==
    /\ Running(t) /\ tasks[t].pc = "loop"
    /\ ~(tasks[t].start < Len(tasks[t].text_content))
    /\ tasks' = [tasks EXCEPT ![t].pc = "embed"]
    /\ document' = [document EXCEPT !.processing_progress = 40]
    /\ UNCHANGED <<file_type, file_text, rows, rag, chunk_size, overlap, workers,
                   reprocessed, completed_as, query, vectors>>

\* An exception inside the loop that is not of the loop's making: the
\* database refuses a statement, or the soft time limit of the task
\* (SoftTimeLimitExceeded) ends it.
ChunkFault(t) ==
    /\ Running(t) /\ tasks[t].pc = "loop"
    /\ \E msg \in ExcTexts : Handle(t, msg, document)
    /\ UNCHANGED <<file_type, file_text, rows, rag, chunk_size, overlap, workers,
                   reprocessed, completed_as, query, vectors>>

\* How create_document_embeddings can end.  RAGService has no method
\* add_document_chunk, so with a chunk to embed the call raises; the
\* import or the construction of the service may fail before that.  Each
\* is caught inside the function and only logged.
EmbeddingOutcomes(chunks) ==
    IF chunks = << >> THEN {"nothing to embed", "ImportError", "Exception"}
    ELSE {"ImportError", "Exception"}

\* What create_document_embeddings lets escape to process_document.
EmbeddingRaises(outcome) == FALSE

\* create_document_embeddings, then _update_progress(document, 80).
Embed(t) ==
    /\ Running(t) /\ tasks[t].pc = "embed"
    /\ \E outcome \in EmbeddingOutcomes(tasks[t].chunks) :
          IF EmbeddingRaises(outcome)
          THEN Handle(t, LongText, document)
          ELSE /\ tasks' = [tasks EXCEPT ![t].pc = "finalize",
                                         ![t].embedding = outcome]
               /\ document' = [document EXCEPT !.processing_progress = 80]
    /\ UNCHANGED <<file_type, file_text, rows, rag, chunk_size, overlap, workers,
                   reprocessed, completed_as, query, vectors>>

\* Variant: the finalize step leaves the progress of the embedding step.
FinalProgressKept == 100 - 20

\* What the finalize step stores as chunk_count and processing_progress.
FinalChunkCount(chunks) == Len(chunks)
FinalProgress == 100

\* The finalize step, in one transaction.
Finalize(t) ==
    /\ Running(t) /\ tasks[t].pc = "finalize"
    /\ document' = [status |-> "completed", processing_progress |-> FinalProgress,
                    chunk_count |-> FinalChunkCount(tasks[t].chunks),
                    error_message |-> << >>]
    /\ tasks' = [tasks EXCEPT ![t] = [Left(@) EXCEPT !.state = "done",
                                                     !.result = "success"]]
    /\ completed_as' = [done |-> TRUE, contents |-> Contents(rows),
                         chunk_count |-> FinalChunkCount(tasks[t].chunks)]
    /\ UNCHANGED <<file_type, file_text, rows, rag, chunk_size, overlap, workers,
                   reprocessed, query, vectors>>

\* task_acks_late and task_reject_on_worker_lost (iosp/celery.py): the
\* message of an execution is acknowledged only after the function has
\* returned, so an execution whose worker is lost, while it runs or after
\* it ended and before the acknowledgement, is delivered again as it was
\* sent.  What the lost worker had written stays.
Redeliver(t) ==
    /\ tasks[t].state \in {"running", "done"}
    /\ tasks' = [tasks EXCEPT ![t] = [Left(@) EXCEPT !.state = "queued",
                                                     !.result = "-"]]
    /\ UNCHANGED <<document, file_type, file_text, rows, rag, chunk_size, overlap,
                   workers, reprocessed, completed_as, query, vectors>>

\* ------------------------------------------------------ reprocess_document

\* A slot for a new execution: one never used, or one whose execution ended.
Free(t) == tasks[t].state \in {"none", "done"}
FreeSlot == CHOOSE t \in DOMAIN tasks : Free(t) /\ \A u \in DOMAIN tasks : Free(u) => t <= u

\* Variant: a completed document is taken for reprocessing too.
EligibleOrCompleted == {"failed", "pending", "completed"}

\* The statuses reprocess_document accepts.
Eligible == {"failed", "pending"}

\* What reprocess_document(d) returns as 'status'.
ReprocessResult(d) ==
    IF d # "d1" THEN "error"
    ELSE IF document.status \notin Eligible THEN "skipped"
    ELSE "queued"

\* Variant: the reset leaves the error message of the failed run.
ResetKeepsMessage(doc) ==
    [doc EXCEPT !.status = "pending", !.processing_progress = 0]

\* status = PENDING, error_message = '', processing_progress = 0, as
\* reprocess_document saves them.
Reset(doc) ==
    [doc EXCEPT !.status = "pending", !.error_message = << >>,
                !.processing_progress = 0]

\* reprocess_document(document_id).  For an eligible document the row is
\* saved as pending, with no error message and progress 0, and
\* process_document.delay(document_id) queues an execution.
Reprocess(d) ==
    /\ reprocessed' = [id |-> d, result |-> ReprocessResult(d)]
    /\ IF ReprocessResult(d) = "queued"
       THEN /\ \E t \in DOMAIN tasks : Free(t)
            /\ document' = Reset(document)
            /\ tasks' = [tasks EXCEPT ![FreeSlot] = Queued(d)]
       ELSE UNCHANGED <<document, tasks>>
    /\ UNCHANGED <<file_type, file_text, rows, rag, chunk_size, overlap, workers,
                   completed_as, query, vectors>>

\* The same function in the two steps its writes make, for the order they
\* come in.  First the lookup, the test of the status and document.save():
\* an eligible document is saved reset and the call goes on (result
\* "saved" stands for the call being between its two writes); any other
\* call returns here.
ReprocessSave(d) ==
    /\ reprocessed.result # "saved"
    /\ IF ReprocessResult(d) = "queued"
       THEN /\ document' = Reset(document)
            /\ reprocessed' = [id |-> d, result |-> "saved"]
       ELSE /\ reprocessed' = [id |-> d, result |-> ReprocessResult(d)]
            /\ UNCHANGED document
    /\ UNCHANGED <<file_type, file_text, rows, tasks, rag, chunk_size, overlap,
                   workers, completed_as, query, vectors>>

\* Then process_document.delay(document_id) and the return of 'queued'.
ReprocessDelay ==
    /\ reprocessed.result = "saved"
    /\ \E t \in DOMAIN tasks : Free(t)
    /\ tasks' = [tasks EXCEPT ![FreeSlot] = Queued(reprocessed.id)]
    /\ reprocessed' = [reprocessed EXCEPT !.result = "queued"]
    /\ UNCHANGED <<document, file_type, file_text, rows, rag, chunk_size, overlap,
                   workers, completed_as, query, vectors>>

\* process_document queued for an id that has no row, as the test of the
\* task does with a fresh uuid.
DelayMissing ==
    /\ \E t \in DOMAIN tasks : Free(t)
    /\ \A t \in DOMAIN tasks : tasks[t].doc_id = "missing" => tasks[t].state = "none"
    /\ tasks' = [tasks EXCEPT ![FreeSlot] = Queued("missing")]
    /\ UNCHANGED <<document, file_type, file_text, rows, rag, chunk_size, overlap,
                   workers, reprocessed, completed_as, query, vectors>>

\* ------------------------------------- ProcessDocumentView (documents app)

\* POST <pk>/process/ by a user allowed to: a completed or processing
\* document is only reported; any other is saved as processing.  No task
\* is queued.
ProcessEndpoint ==
    /\ IF document.status \in {"completed", "processing"}
       THEN UNCHANGED document
       ELSE document' = [document EXCEPT !.status = "processing"]
    /\ UNCHANGED <<file_type, file_text, rows, tasks, rag, chunk_size, overlap,
                   workers, reprocessed, completed_as, query, vectors>>

\* ------------------------------------------- RAGService.process_document

\* doc = Document.objects.get(id=document_id); doc.status = 'processing';
\* doc.save().  The instance read here is the one every later save writes.
RagBegin ==
    /\ rag.pc = "idle"
    /\ InProgress < workers
    /\ document' = [document EXCEPT !.status = "processing"]
    /\ rag' = [pc |-> "loaded", doc |-> document']
    /\ UNCHANGED <<file_type, file_text, rows, tasks, chunk_size, overlap, workers,
                   reprocessed, completed_as, query, vectors>>

\* The rows step 4 creates before create raises, if it does: chunk i is
\* stored with chunk_index i and its vector id, up to the first index a
\* row of the document already has.
RECURSIVE RagCreated(_, _, _)
RagCreated(rs, i, k) ==
    IF i >= k \/ \E j \in 1..Len(rs) : rs[j].chunk_index = i THEN rs
    ELSE RagCreated(Append(rs, [chunk_index |-> i, content |-> <<"a">>,
                                vector_id |-> "v"]), i + 1, k)

\* What step 5 saves: the instance read at the start, with status,
\* chunk_count and processed_at set.
RagCompleted(doc, k) == [doc EXCEPT !.status = "completed", !.chunk_count = k]

\* What the except block saves: str(e) whole.
RagFailed(doc, msg) == [doc EXCEPT !.status = "failed", !.error_message = msg]

\* vectorstore.add_documents(chunks) of VectorStoreService.add_documents:
\* the chunks are passed without ids, so each is stored under an id of its
\* own, new at every call; nothing is replaced or removed.
Added(vs, k) ==
    vs \o [i \in 1..k |-> [id |-> Len(vs) + i, passage |-> i - 1]]

\* Steps 1 to 5 and the except block.  Loading, splitting or the vector
\* store may raise; the splitter returns k chunks, which step 3 adds to the
\* vector store before step 4 creates their rows.
RagEnd ==
    /\ rag.pc = "loaded"
    /\ \/ \E msg \in ExcTexts :
            /\ document' = RagFailed(rag.doc, msg)
            /\ UNCHANGED <<rows, vectors>>
       \/ \E k \in 0..MaxRagChunks :
            /\ Len(Added(vectors, k)) <= MaxVectors
            /\ vectors' = Added(vectors, k)
            /\ rows' = RagCreated(rows, 0, k)
            /\ IF Len(rows') = Len(rows) + k
               THEN document' = RagCompleted(rag.doc, k)
               ELSE document' = RagFailed(rag.doc, IntegrityText)
    /\ rag' = [pc |-> "idle", doc |-> NewDocument]
    /\ UNCHANGED <<file_type, file_text, tasks, chunk_size, overlap, workers,
                   reprocessed, completed_as, query>>

\* --------------------------------------------------------- RAGService.query

\* [:200] of a source's content, scaled to the model's short contents.
PreviewLimit == 2
\* search_results[:3]
MaxSources == 3
\* Most results the vector store returns (k).
MaxResults == 4

\* Scores are counted in thousandths: the 1 of 1 - avg_score and of
\* 1 - r['score'] is a thousand of them, and a hundredth, the unit of
\* round(confidence, 2), is ten.
One == 1000
Hundredth == 10

\* The scores of the model: below 0, inside the range with a mean that
\* falls halfway between two hundredths, and above 1.
Scores == {-500, 335, 1500}
\* The contents of the model: shorter and longer than the preview.
ResultContents == {<<"x">>, <<"x", "y", "z">>}

\* What VectorStoreService.search returns: up to k results in the order
\* of the vector store.
SearchResult == [content : ResultContents, metadata : {"m"}, score : Scores]
SearchResults == UNION {[1..n -> SearchResult] : n \in 0..MaxResults}

\* The fixed answer for no results, written here without its diacritics.
CannedAnswer == "Bu soruyla ilgili dokuman bulunamadi."
LlmAnswer == "answer"

\* Variant: the fixed answer is given with full confidence.
EmptyResultSure ==
    [answer |-> CannedAnswer, sources |-> << >>, confidence |-> One \div Hundredth]

\* What query returns when the search gave no result.
EmptyResult == [answer |-> CannedAnswer, sources |-> << >>, confidence |-> 0]

RECURSIVE SumScores(_)
SumScores(results) ==
    IF results = << >> THEN 0 ELSE Head(results).score + SumScores(Tail(results))

\* Variant: 1 - avg_score is not clamped.
UnclampedNumerator(results) == One * Len(results) - SumScores(results)

\* max(0, min(1, 1 - avg_score)) as a fraction: the numerator over the
\* denominator One * len(search_results).
ClampedNumerator(results) ==
    LET den == One * Len(results)
    IN  Max(0, Min(den, den - SumScores(results)))

\* round(confidence, 2), in hundredths.  A value halfway between two
\* hundredths goes to either, as its binary representation falls.
Rounded(num, den) ==
    LET scaled == num * (One \div Hundredth)
        lower == scaled \div den
        rest == scaled % den
    IN  IF 2 * rest < den THEN {lower}
        ELSE IF 2 * rest > den THEN {lower + 1}
        ELSE {lower, lower + 1}

ConfidenceOutcomes(results) ==
    Rounded(ClampedNumerator(results), One * Len(results))

\* r['content'][:200] + "..."
Preview(content) == SubSeq(content, 1, Min(Len(content), PreviewLimit)) \o <<".", ".", ".">>

\* The entry of sources made from result r.
Source(r) == [content |-> Preview(r.content), metadata |-> r.metadata,
              relevance |-> One - r.score]

\* Variant: the sources are made from the last results, last first.
SourcesFromLast(results) ==
    [i \in 1..Min(Len(results), MaxSources) |-> Source(results[Len(results) + 1 - i])]

\* The sources of the result: one for each of search_results[:3].
Sources(results) ==
    [i \in 1..Min(Len(results), MaxSources) |-> Source(results[i])]

\* ------------------------------------- RAGQueryView and AskQuestionView

\* The texts the views answer a failure with, written without diacritics.
GenericError(view) ==
    IF view = "rag" THEN "Sorgulama sirasinda hata olustu"
    ELSE "Sorgu islenirken bir hata olustu."
SanitizedAnswer ==
    "Uzgunum, su anda yanit olusturulamiyor. Lutfen daha sonra tekrar deneyin."

\* Variant: the exception's text is added whatever DEBUG is.
DebugMessageAlways(debug, msg) == [present |-> TRUE, text |-> msg]

\* if settings.DEBUG: error_response['debug_message'] = str(e)
DebugMessage(debug, msg) ==
    IF debug THEN [present |-> TRUE, text |-> msg] ELSE NoDebugMessage

\* What is left alone by the steps of a query.
Ingestion == <<document, file_type, file_text, rows, tasks, rag, chunk_size, overlap,
               workers, reprocessed, completed_as, vectors>>

\* A query view takes up a question: RAGQueryView.post ("rag") or
\* AskQuestionView.post ("chat"), under either setting of DEBUG.
QueryBegin ==
    /\ query.pc = "idle"
    /\ \E view \in {"rag", "chat"}, debug \in BOOLEAN :
          query' = [IdleQuery EXCEPT !.pc = "search", !.view = view, !.debug = debug]
    /\ UNCHANGED Ingestion

\* Step 1 of RAGService.query: vector_store.search returns its results or
\* raises.  With no result query returns the fixed answer at once.
Search ==
    /\ query.pc = "search"
    /\ \/ \E msg \in ExcTexts : query' = [query EXCEPT !.pc = "except", !.exc = msg]
       \/ \E results \in SearchResults :
             query' = IF results = << >>
                      THEN [query EXCEPT !.pc = "respond", !.result = EmptyResult]
                      ELSE [query EXCEPT !.pc = "generate", !.results = results]
    /\ UNCHANGED Ingestion

\* Steps 2 to 4: the prompt is built, the model is invoked once and
\* answers or raises, and the result is put together.
Generate ==
    /\ query.pc = "generate"
    /\ \/ \E msg \in ExcTexts :
             query' = [query EXCEPT !.pc = "except", !.exc = msg,
                                    !.llm_calls = @ + 1]
       \/ \E confidence \in ConfidenceOutcomes(query.results) :
             query' = [query EXCEPT !.pc = "respond", !.llm_calls = @ + 1,
                                    !.result = [answer |-> LlmAnswer,
                                                sources |-> Sources(query.results),
                                                confidence |-> confidence]]
    /\ UNCHANGED Ingestion

\* The rest of the view's try block: RAGQueryView logs a UserActivity and
\* answers with the result; AskQuestionView stores the assistant's Message
\* and answers with it.  The write may raise.
Respond ==
    /\ query.pc = "respond"
    /\ \/ \E msg \in ExcTexts : query' = [query EXCEPT !.pc = "except", !.exc = msg]
       \/ query' = [query EXCEPT
                      !.pc = "done",
                      !.message = IF query.view = "chat"
                                  THEN [saved |-> TRUE,
                                        content |-> query.result.answer,
                                        sources |-> query.result.sources,
                                        confidence |-> query.result.confidence]
                                  ELSE @,
                      !.response = [NoResponse EXCEPT !.status = "200",
                                                      !.result = query.result]]
    /\ UNCHANGED Ingestion

\* The view's except block: AskQuestionView stores the sanitized Message
\* with confidence 0; both answer 500 with a fixed error text, and with
\* str(e) when DEBUG is on.
Except ==
    /\ query.pc = "except"
    /\ query' = [query EXCEPT
                   !.pc = "done",
                   !.message = IF query.view = "chat"
                               THEN [saved |-> TRUE, content |-> SanitizedAnswer,
                                     sources |-> << >>, confidence |-> 0]
                               ELSE @,
                   !.response = [NoResponse EXCEPT
                                   !.status = "500",
                                   !.error = GenericError(query.view),
                                   !.debug_message = DebugMessage(query.debug,
                                                                  query.exc)]]
    /\ UNCHANGED Ingestion

\* The response is sent.
QueryEnd ==
    /\ query.pc = "done"
    /\ query' = IdleQuery
    /\ UNCHANGED Ingestion

\* ---------------------------------------------------------- specification

\* The tasks, the reprocess task and the process endpoint.
Next ==
    \/ \E t \in Tasks : Begin(t)
    \/ \E t \in Tasks : Extract(t)
    \/ \E t \in Tasks : ChunkClean(t)
    \/ \E t \in Tasks : ChunkIteration(t)
    \/ \E t \in Tasks : ChunkReturn(t)
    \/ \E t \in Tasks : ChunkFault(t)
    \/ \E t \in Tasks : Embed(t)
    \/ \E t \in Tasks : Finalize(t)
    \/ \E t \in Tasks : Redeliver(t)
    \/ \E d \in DocIds : Reprocess(d)
    \/ DelayMissing
    \/ ProcessEndpoint

\* An uploaded document and the executions queued for it, run one at a time.
Spec == Init /\ [][Next]_vars

\* The same with the synchronous RAGService.process_document, which runs
\* when no task does.
NextAll ==
    \/ Next
    \/ RagBegin
    \/ RagEnd

SpecAll == Init /\ [][NextAll]_vars

\* The same tasks with two workers and room for two executions at once,
\* for a text file whose upload queued its execution: nothing in the tasks
\* or in reprocess_document looks at the executions that already exist.
InitConc ==
    /\ Upload(ConcTasks)
    /\ file_type = "txt"
    /\ Len(file_text) <= MaxConcFileLen
    /\ tasks[1].state = "queued"
    /\ chunk_size = DefaultChunkSize
    /\ overlap = DefaultOverlap
    /\ workers = 2

NextConc ==
    \/ \E t \in ConcTasks : Begin(t)
    \/ \E t \in ConcTasks : Extract(t)
    \/ \E t \in ConcTasks : ChunkClean(t)
    \/ \E t \in ConcTasks : ChunkIteration(t)
    \/ \E t \in ConcTasks : ChunkReturn(t)
    \/ \E t \in ConcTasks : ChunkFault(t)
    \/ \E t \in ConcTasks : Embed(t)
    \/ \E t \in ConcTasks : Finalize(t)
    \/ \E t \in ConcTasks : Redeliver(t)
    \/ \E d \in DocIds : Reprocess(d)
    \/ DelayMissing
    \/ ProcessEndpoint

SpecConc == InitConc /\ [][NextConc]_vars

\* The tasks and the process endpoint as in Spec, with reprocess_document
\* in its two steps.
NextReprocess ==
    \/ \E t \in Tasks : Begin(t)
    \/ \E t \in Tasks : Extract(t)
    \/ \E t \in Tasks : ChunkClean(t)
    \/ \E t \in Tasks : ChunkIteration(t)
    \/ \E t \in Tasks : ChunkReturn(t)
    \/ \E t \in Tasks : ChunkFault(t)
    \/ \E t \in Tasks : Embed(t)
    \/ \E t \in Tasks : Finalize(t)
    \/ \E t \in Tasks : Redeliver(t)
    \/ \E d \in DocIds : ReprocessSave(d)
    \/ ReprocessDelay
    \/ DelayMissing
    \/ ProcessEndpoint

SpecReprocess == Init /\ [][NextReprocess]_vars

\* chunk_document_text(text, document, chunk_size, overlap) called with any
\* text and any parameters on a document that has a row from an earlier run.
OldRow == [chunk_index |-> 0, content |-> <<"a">>, vector_id |-> ""]

Chunking(texts, sizes, overlaps) ==
    /\ document = [NewDocument EXCEPT !.status = "processing",
                                      !.processing_progress = 20, !.chunk_count = 1]
    /\ file_type = "txt"
    /\ file_text \in texts
    /\ rows = <<OldRow>>
    /\ tasks = [t \in Tasks |->
                  IF t = 1
                  THEN [Queued("d1") EXCEPT !.state = "running", !.pc = "chunk",
                                            !.text_content = file_text]
                  ELSE IdleTask]
    /\ rag = [pc |-> "idle", doc |-> NewDocument]
    /\ completed_as = [done |-> FALSE, contents |-> << >>, chunk_count |-> 0]
    /\ reprocessed = [id |-> "-", result |-> "-"]
    /\ query = IdleQuery
    /\ vectors = << >>
    /\ chunk_size \in sizes
    /\ overlap \in overlaps
    /\ workers = 1

InitChunk == Chunking(TextsUpTo(MaxTextLen), 1..MaxChunkSize, 0..MaxOverlap)

NextChunk ==
    \/ ChunkClean(1)
    \/ ChunkIteration(1)
    \/ ChunkReturn(1)

SpecChunk == InitChunk /\ [][NextChunk]_vars

\* Steps 2 to 4 of process_document: the chunker as above, then the
\* embedding step and the finalize step.
NextSteps ==
    \/ NextChunk
    \/ Embed(1)
    \/ Finalize(1)

SpecSteps == InitChunk /\ [][NextSteps]_vars

\* The chunker called with texts in which two different markers occur, and
\* with a chunk_size for which two markers can both lie beyond the middle
\* of the first window.
InitMarkers ==
    Chunking([1..MaxMarkerLen -> MarkerChars], {MaxMarkerLen - 1}, {DefaultOverlap})

SpecMarkers == InitMarkers /\ [][NextChunk]_vars

\* The query views over RAGService.query; no document is being ingested.
NextQuery ==
    \/ QueryBegin
    \/ Search
    \/ Generate
    \/ Respond
    \/ Except
    \/ QueryEnd

\* Questions are asked over one state of the ingestion: a document just
\* uploaded, with an empty text file and nothing queued.
InitQuery ==
    /\ Init
    /\ file_type = "txt"
    /\ file_text = << >>
    /\ tasks = [t \in Tasks |-> IdleTask]

SpecQuery == InitQuery /\ [][NextQuery]_vars

\* ------------------------------------------------------------------ claims

Contiguous(rs) == \A i \in 1..Len(rs) : rs[i].chunk_index = i - 1

\* C1: an execution whose embedding step raised ends with the document
\* failed and a non-empty error_message, once the retries are used up; it
\* never ends with the document completed.
C1_EmbeddingFailureEndsFailed ==
    [][\A t \in Tasks :
          (tasks[t].embedding = "Exception" /\ tasks'[t].state = "done")
          => (/\ document'.status = "failed"
              /\ document'.error_message # << >>
              /\ tasks[t].retries = max_retries)]_vars

\* C2: with 0 < overlap < chunk_size every iteration of the chunk loop moves
\* start strictly forward (so the loop ends), and the rows carry the
\* indices 0..N-1.
C2_StartStrictlyIncreases ==
    [][\A t \in Tasks :
          (/\ 0 < overlap /\ overlap < chunk_size
           /\ tasks[t].pc = "loop"
           /\ tasks'[t].iterations = tasks[t].iterations + 1)
          => (tasks'[t].start > tasks[t].start /\ Contiguous(rows'))]_vars

\* C3: called with overlap >= chunk_size, the chunker deletes no row,
\* creates none and never enters its loop.
C3_InvalidConfigFailsFast ==
    overlap >= chunk_size
    => (rows = <<OldRow>> /\ \A t \in Tasks : tasks[t].pc # "loop")

\* C4: a completed document has chunk_count equal to the number of its rows
\* and processing_progress 100, whichever path completed it.
C4_CompletedCountsRows ==
    document.status = "completed"
    => (document.chunk_count = Len(rows) /\ document.processing_progress = 100)

\* C5: a failed document has a non-empty error_message, whichever path
\* failed it and whatever the exception's text.
C5_FailedHasMessage ==
    document.status = "failed" => document.error_message # << >>

\* No execution is about to create a chunk whose index a stored row has.
NoDuplicateAhead ==
    \A t \in Tasks :
       (/\ tasks[t].pc = "loop"
        /\ tasks[t].start < Len(tasks[t].text_content)
        /\ \E i \in 1..Len(rows) : rows[i].chunk_index = CreatedIndex(tasks[t]))
       => ChunkText(tasks[t].text_content, tasks[t].start, chunk_size) = << >>

\* C6: when process_document completes a document it had completed before,
\* the chunk_count and the ordered row contents are those of the earlier
\* completion, and no execution meets a row of the earlier run when it
\* creates its own: the old rows are gone before the new ones are made.
C6_RedeliverySameResult ==
    [][/\ NoDuplicateAhead'
       /\ \A t \in Tasks :
             (/\ completed_as.done
              /\ tasks[t].pc = "finalize"
              /\ tasks'[t].result = "success")
             => (/\ document'.status = "completed"
                 /\ document'.chunk_count = completed_as.chunk_count
                 /\ Contents(rows') = completed_as.contents
                 /\ Len(rows') = document'.chunk_count)]_vars

\* An execution delivered again has cleaned the rows of the completed
\* document and made the first of the two anew.
C6_Witness ==
    /\ completed_as.done
    /\ Len(completed_as.contents) = 2
    /\ \E t \in Tasks : tasks[t].pc = "loop" /\ Len(tasks[t].chunks) = 1
    /\ Len(rows) = 1

\* C7: reprocess_document on a completed or processing document answers
\* 'skipped', queues nothing and changes neither the document nor its rows.
C7_ReprocessNotEligible ==
    [][(/\ document.status \in {"completed", "processing"}
        /\ reprocessed' # reprocessed
        /\ reprocessed'.id = "d1")
       => (/\ reprocessed'.result = "skipped"
           /\ UNCHANGED <<document, rows, tasks>>)]_vars

\* reprocess_document has answered 'skipped' for the completed document,
\* which has its rows.
C7_Witness ==
    /\ reprocessed = [id |-> "d1", result |-> "skipped"]
    /\ document.status = "completed"
    /\ rows # << >>

\* C8: the stored rows carry the indices 0..N-1 in creation order, and no
\* stored row is empty, after runs that completed and runs that stopped
\* inside the loop alike.
C8_IndicesContiguous ==
    /\ Contiguous(rows)
    /\ \A i \in 1..Len(rows) : rows[i].content # << >>

\* An execution stopped after it created a row and awaits its retry; the
\* text's first window was blank, so the row stored is the second chunk cut.
C8_Witness ==
    /\ \E t \in Tasks : tasks[t].state = "retry"
    /\ file_text = <<" ", " ", "a">>
    /\ Len(rows) = 1

\* C9: process_document on an id with no row ends at once with the result
\* 'error', is not retried, and changes neither the document nor its rows.
C9_MissingDocumentNoRetry ==
    [][\A t \in Tasks :
          (/\ tasks[t].doc_id = "missing"
           /\ tasks[t].state \in {"queued", "retry"}
           /\ tasks'[t] # tasks[t])
          => (/\ tasks'[t].state = "done"
              /\ tasks'[t].result = "error"
              /\ tasks'[t].retries = tasks[t].retries
              /\ UNCHANGED <<document, rows>>)]_vars

\* The execution for the missing id has ended with 'error'.
C9_Witness ==
    \E t \in Tasks :
       /\ tasks[t].doc_id = "missing"
       /\ tasks[t].state = "done"
       /\ tasks[t].result = "error"

\* C10: the ValueError of an unsupported file type is never retried: no
\* execution for such a document awaits a retry.
C10_UnsupportedTypeNotRetried ==
    file_type \notin Supported => \A t \in Tasks : tasks[t].state # "retry"

\* The executions whose call of chunk_document_text has returned.
Returned == {t \in Tasks : tasks[t].pc = "embed"}

\* C11 as stated: a text no longer than chunk_size gives exactly one
\* passage, the trimmed text.
C11_ShortTextOnePassage ==
    \A t \in Returned :
       Len(file_text) <= chunk_size
       => (/\ Contents(rows) = <<Strip(file_text)>>
           /\ Contents(tasks[t].chunks) = <<Strip(file_text)>>)

\* C11, amended: a text no longer than chunk_size that is not blank gives
\* exactly one passage, the trimmed text, with index 0; a blank one (empty
\* or whitespace only) gives none.
C11_ShortTextOnePassageUnlessBlank ==
    \A t \in Returned :
       Len(file_text) <= chunk_size
       => IF Strip(file_text) = << >>
          THEN rows = << >> /\ tasks[t].chunks = << >>
          ELSE /\ Contents(rows) = <<Strip(file_text)>>
               /\ Indices(rows) = <<0>>
               /\ Contents(tasks[t].chunks) = <<Strip(file_text)>>

\* The chunker has returned for a text exactly chunk_size long that had
\* whitespace to trim at both ends.
C11_Witness ==
    /\ Returned # {}
    /\ Len(file_text) = chunk_size
    /\ Len(Strip(file_text)) + 2 <= Len(file_text)
    /\ Len(rows) = 1

\* How many characters of the text the windows of passages c and d share.
Shared(text, c, d) ==
    Cardinality(Positions(text, c.start, c.end) \cap Positions(text, d.start, d.end))

\* C12: the windows of two consecutive passages share no more characters
\* of the text than overlap (and no fewer than none).
C12_SharedAtMostOverlap ==
    \A t \in Tasks :
       \A i \in 1..(Len(tasks[t].chunks) - 1) :
          LET n == Shared(tasks[t].text_content, tasks[t].chunks[i],
                          tasks[t].chunks[i + 1])
          IN  0 <= n /\ n <= overlap

\* Two consecutive passages share exactly overlap characters, three of
\* them, under a chunk_size above the overlap.
C12_Witness ==
    \E t \in Tasks :
       /\ overlap = 3 /\ overlap < chunk_size
       /\ Len(tasks[t].chunks) >= 2
       /\ Shared(tasks[t].text_content, tasks[t].chunks[1], tasks[t].chunks[2]) = 3

\* C13: every window starts at or before the end of the one before it, and
\* when the chunker returns the windows it visited have covered every
\* position of the text.
C13_WindowsCoverText ==
    [][\A t \in Tasks :
          (tasks[t].pc = "loop" /\ tasks'[t].pc \in {"loop", "embed"})
          => (/\ tasks'[t].start
                    <= WindowEnd(tasks[t].text_content, tasks[t].start, chunk_size)
              /\ tasks'[t].pc = "embed"
                    => tasks'[t].covered = 0..(Len(tasks[t].text_content) - 1))]_vars

\* The chunker has returned for a text of eight characters after it
\* visited three windows or more, one of them blank.
C13_Witness ==
    \E t \in Returned :
       /\ Len(tasks[t].text_content) = 8
       /\ tasks[t].iterations >= 3
       /\ Len(tasks[t].chunks) < tasks[t].iterations
       /\ tasks[t].covered = 0..7

\* No window of a passage was cut at a sentence boundary.
Uncut(chunks) == \A i \in 1..Len(chunks) : chunks[i].end = chunks[i].start + chunk_size

\* Passage i starts at i * (chunk_size - overlap), has index i, and the
\* last passage is the first whose window reaches the end of the text.
Regular(text, chunks) ==
    \A i \in 1..Len(chunks) :
       /\ chunks[i].start = (i - 1) * (chunk_size - overlap)
       /\ chunks[i].index = i - 1
       /\ (chunks[i].end >= Len(text)) = (i = Len(chunks))

\* C14 as stated: when no window is cut at a sentence boundary (and
\* overlap < chunk_size), the passages are regular and process_document
\* ends with the document completed and chunk_count their number.
C14_RegularPassages ==
    [][\A t \in Tasks :
          (/\ overlap < chunk_size
           /\ tasks[t].pc = "finalize" /\ tasks'[t].state = "done"
           /\ Uncut(tasks[t].chunks))
          => (/\ Regular(tasks[t].text_content, tasks[t].chunks)
              /\ document'.status = "completed"
              /\ document'.chunk_count = Len(tasks[t].chunks)
              /\ Len(rows') = Len(tasks[t].chunks))]_vars

\* C14, amended: the same for a text none of whose windows is blank.
C14_RegularPassagesNoBlankWindow ==
    [][\A t \in Tasks :
          (/\ overlap < chunk_size
           /\ tasks[t].pc = "finalize" /\ tasks'[t].state = "done"
           /\ Uncut(tasks[t].chunks)
           /\ Len(tasks[t].chunks) = tasks[t].iterations)
          => (/\ Regular(tasks[t].text_content, tasks[t].chunks)
              /\ document'.status = "completed"
              /\ document'.chunk_count = Len(tasks[t].chunks)
              /\ Contents(rows') = Contents(tasks[t].chunks)
              /\ Indices(rows') = [i \in 1..Len(tasks[t].chunks) |-> i - 1])]_vars

\* The scaled picture of 2500 characters under 1000 and 200: eight
\* characters under chunk_size 4 and overlap 1 have given three passages,
\* the third window the first to reach the end, and the document is
\* completed with chunk_count 3.
C14_Witness ==
    /\ chunk_size = 4 /\ overlap = 1
    /\ Len(file_text) = 8
    /\ document.status = "completed"
    /\ document.chunk_count = 3
    /\ Indices(rows) = <<0, 1, 2>>
    /\ Len(rows[1].content) = 4 /\ Len(rows[2].content) = 4 /\ Len(rows[3].content) = 2

\* C15: when the search returned no result, query returns the fixed answer
\* with no sources and confidence 0 and the model was not invoked; the
\* view answers 200 with that result.
C15_NoResultsCannedAnswer ==
    /\ (query.pc = "respond" /\ query.results = << >>)
       => (/\ query.result = [answer |-> CannedAnswer, sources |-> << >>,
                              confidence |-> 0]
           /\ query.llm_calls = 0)
    /\ (query.pc = "done" /\ query.results = << >> /\ query.response.status = "200")
       => (/\ query.response.result = [answer |-> CannedAnswer, sources |-> << >>,
                                       confidence |-> 0]
           /\ query.llm_calls = 0)

\* The chat view has answered 200 with the fixed answer and stored it.
C15_Witness ==
    /\ query.pc = "done" /\ query.view = "chat"
    /\ query.results = << >>
    /\ query.response.status = "200"
    /\ query.message.saved /\ query.message.content = CannedAnswer

\* The executions of query that got results and returned.
Answered == query.pc = "respond" /\ query.results # << >>

\* C16 as stated: the confidence returned is the clamped 1 - mean exactly,
\* and lies in 0..1.
C16_ConfidenceIsClampedMean ==
    Answered
    => LET c == query.result.confidence
           den == One * Len(query.results)
       IN  /\ c * Hundredth * Len(query.results)
                 = Max(0, Min(den, den - SumScores(query.results)))
           /\ 0 <= c /\ c <= One \div Hundredth

\* C16, amended: the confidence returned is the clamped 1 - mean rounded
\* to the nearest hundredth (no further from it than half a hundredth),
\* and lies in 0..1.
C16_ConfidenceIsRoundedClampedMean ==
    Answered
    => LET c == query.result.confidence
           n == Len(query.results)
           den == One * n
           clamped == Max(0, Min(den, den - SumScores(query.results)))
           diff == c * Hundredth * n - clamped
       IN  /\ 2 * diff <= Hundredth * n
           /\ -2 * diff <= Hundredth * n
           /\ 0 <= c /\ c <= One \div Hundredth

\* Three results, one of each score, have given a confidence strictly
\* inside the range that is not the clamped mean itself.
C16_Witness ==
    /\ Answered
    /\ Len(query.results) = 3
    /\ {query.results[i].score : i \in 1..3} = Scores
    /\ query.result.confidence > 0
    /\ query.result.confidence < One \div Hundredth
    /\ query.result.confidence * Hundredth * 3
          # 3 * One - SumScores(query.results)

\* C17 as stated: min(3, n) sources, the i-th made from the i-th result,
\* its content the first characters of the result's up to the preview
\* length, its relevance 1 - score.
C17_SourcesArePrefixes ==
    query.pc = "respond"
    => LET rs == query.results
           src == query.result.sources
       IN  /\ Len(src) = Min(MaxSources, Len(rs))
           /\ \A i \in 1..Len(src) :
                 /\ src[i].content
                       = SubSeq(rs[i].content, 1, Min(Len(rs[i].content), PreviewLimit))
                 /\ src[i].metadata = rs[i].metadata
                 /\ src[i].relevance = One - rs[i].score

\* C17, amended: the content is those first characters followed by "...",
\* also when the result's content was no longer than the preview.
C17_SourcesArePrefixesWithDots ==
    query.pc = "respond"
    => LET rs == query.results
           src == query.result.sources
       IN  /\ Len(src) = Min(MaxSources, Len(rs))
           /\ \A i \in 1..Len(src) :
                 /\ src[i].content
                       = SubSeq(rs[i].content, 1, Min(Len(rs[i].content), PreviewLimit))
                            \o <<".", ".", ".">>
                 /\ src[i].metadata = rs[i].metadata
                 /\ src[i].relevance = One - rs[i].score

\* Four results have given three sources; the first result was short and
\* its source ends in dots all the same, the fourth differs from the first.
C17_Witness ==
    /\ query.pc = "respond"
    /\ Len(query.results) = 4
    /\ Len(query.result.sources) = 3
    /\ query.results[1].content = <<"x">>
    /\ query.result.sources[1].content = <<"x", ".", ".", ".">>
    /\ query.results[4] # query.results[1]

\* C18: with DEBUG off a failed query is answered by the view's fixed
\* error alone and, in the chat view, stored as the fixed message with
\* confidence 0; neither depends on the exception's text.
C18_FailureTextNotExposed ==
    (query.pc = "done" /\ query.response.status = "500" /\ ~query.debug)
    => (/\ query.response = [NoResponse EXCEPT !.status = "500",
                                               !.error = GenericError(query.view)]
        /\ query.message = IF query.view = "chat"
                           THEN [saved |-> TRUE, content |-> SanitizedAnswer,
                                 sources |-> << >>, confidence |-> 0]
                           ELSE NoMessage)

\* The chat view has answered a failure of the model, whose exception
\* had a text, with DEBUG off.
C18_Witness ==
    /\ query.pc = "done" /\ query.view = "chat" /\ ~query.debug
    /\ query.response.status = "500"
    /\ query.exc = LongText
    /\ query.llm_calls = 1
    /\ query.message.saved

\* The executions of process_document for d1 that wait on the queue.
QueuedFor(ts) == {t \in DOMAIN ts : ts[t].state = "queued" /\ ts[t].doc_id = "d1"}

\* C19: the process endpoint called for a pending document puts exactly
\* one execution of process_document for it on the queue; called for a
\* completed or processing document it queues nothing and leaves the
\* status as it is.
C19_EndpointQueuesOnce ==
    [][ProcessEndpoint
       => IF document.status \in {"completed", "processing"}
          THEN UNCHANGED <<document, tasks>>
          ELSE document.status = "pending"
               => Cardinality(QueuedFor(tasks')) = Cardinality(QueuedFor(tasks)) + 1]_vars

\* The executions of process_document that exist for the document: queued,
\* running, or waiting for a retry.
Outstanding ==
    {t \in DOMAIN tasks : /\ tasks[t].doc_id = "d1"
                          /\ tasks[t].state \in {"queued", "running", "retry"}}

\* C20: at any time at most one execution of process_document (queued,
\* running or waiting for a retry) exists for a document; reprocess never
\* queues a second one while an earlier one is queued or running.
C20_OneExecutionPerDocument == Cardinality(Outstanding) <= 1

\* C21: a passage written to the vector store again, as happens when the
\* document is ingested again, has exactly one vector record, and the
\* document never has more vector records than passages.
C21_OneRecordPerPassage ==
    /\ \A i, j \in 1..Len(vectors) : vectors[i].passage = vectors[j].passage => i = j
    /\ Len(vectors) <= Len(rows)

\* C22: an execution whose text extraction fails is scheduled again at
\* most max_retries times, with the document left in processing, and when
\* the last attempt fails the execution ends with the document failed.
C22_ExtractionFailureEndsFailed ==
    [][\A t \in Tasks :
          (Running(t) /\ tasks[t].pc = "extract")
          => /\ tasks'[t].state = "retry"
                => (tasks'[t].retries <= max_retries /\ document'.status = "processing")
             /\ tasks'[t].state = "done" => document'.status = "failed"]_vars

\* str(e) of every exception an execution can meet.
Raised == ExcTexts \cup {UnsupportedText, IntegrityText}

\* C23: the step by which an execution ends failed changes, of the
\* document and its passages, only status and error_message: the message is
\* the exception's text cut to the limit, processing_progress and
\* chunk_count keep their values, and every passage stays as it was.
C23_FailedChangesStatusAndMessage ==
    [][\A t \in Tasks :
          (Running(t) /\ tasks'[t].result = "failed")
          => /\ document'.status = "failed"
             /\ \E msg \in Raised :
                   document'.error_message = SubSeq(msg, 1, Min(Len(msg), ErrorMessageLimit))
             /\ document'.processing_progress = document.processing_progress
             /\ document'.chunk_count = document.chunk_count
             /\ rows' = rows]_vars

\* An execution ended failed by an exception with a long text, raised in
\* the chunk loop after a passage was stored: the message is the cut text,
\* the progress that of the extraction step, and the passage is there.
C23_Witness ==
    /\ \E t \in Tasks : tasks[t].result = "failed"
    /\ document.status = "failed"
    /\ document.error_message = SubSeq(LongText, 1, ErrorMessageLimit)
    /\ document.processing_progress = 20
    /\ rows # << >>

\* C24: when the document is completed, each of its passages has a
\* vector_id that is not empty, and the vector store holds exactly one
\* record for the passage's index.
C24_CompletedPassagesHaveVectors ==
    document.status = "completed"
    => \A i \in 1..Len(rows) :
          /\ rows[i].vector_id # ""
          /\ Cardinality({j \in 1..Len(vectors) :
                             vectors[j].passage = rows[i].chunk_index}) = 1

\* C25: reprocess_document on a failed or pending document first saves
\* it as pending with an empty error_message and progress 0, queueing
\* nothing in that step, and only from there queues exactly one execution
\* of process_document for that document and returns 'queued'.
C25_ResetThenQueueOnce ==
    [][/\ (reprocessed'.result = "saved" /\ reprocessed.result # "saved")
          => /\ document.status \in {"failed", "pending"}
             /\ document'.status = "pending"
             /\ document'.error_message = << >>
             /\ document'.processing_progress = 0
             /\ tasks' = tasks
       /\ (reprocessed'.result = "queued" /\ reprocessed.result # "queued")
          => /\ reprocessed.result = "saved"
             /\ reprocessed'.id = reprocessed.id
             /\ Cardinality(QueuedFor(tasks')) = Cardinality(QueuedFor(tasks)) + 1
             /\ \A t \in DOMAIN tasks : tasks'[t] # tasks[t] => tasks'[t] = Queued("d1")
             /\ document' = document]_vars

\* reprocess_document has returned 'queued' for a document whose run had
\* failed: the document is pending with no message, and the one execution
\* queued for it is waiting.
C25_Witness ==
    /\ reprocessed = [id |-> "d1", result |-> "queued"]
    /\ document = [NewDocument EXCEPT !.chunk_count = document.chunk_count]
    /\ rows # << >>
    /\ Cardinality(QueuedFor(tasks)) = 1

\* Where the chunk of the window of chunk_size characters at start is to
\* be cut: just after the last occurrence of the first marker, in the
\* order of the list, that occurs in the window at an offset beyond half of
\* chunk_size; at chunk_size characters when there is none.
MarkerCut(text, start, cs) ==
    LET w == SubSeq(text, start + 1, start + cs)
        At(k) == {i \in 0..(cs - 2) : <<w[i + 1], w[i + 2]>> = Separators[k]}
        good == {k \in 1..Len(Separators) : \E i \in At(k) : 2 * i > cs}
        first == CHOOSE k \in good : \A j \in good : k <= j
    IN  IF good = {} THEN start + cs
        ELSE start + (CHOOSE i \in At(first) : \A j \in At(first) : j <= i) + 2

\* C26: an iteration whose window does not reach the end of the text cuts
\* its chunk at MarkerCut: the chunk it stores is the text from start to
\* there, trimmed, and the next window starts overlap before it.
C26_CutAfterFirstMarker ==
    [][\A t \in Tasks :
          LET tk == tasks[t]
              text == tk.text_content
              cut == MarkerCut(text, tk.start, chunk_size)
          IN  (/\ tk.pc = "loop"
               /\ tasks'[t].iterations = tk.iterations + 1
               /\ tk.start >= 0
               /\ tk.start + chunk_size < Len(text))
              => /\ tasks'[t].start = cut - overlap
                 /\ Len(tasks'[t].chunks) > Len(tk.chunks)
                    => tasks'[t].chunks[Len(tasks'[t].chunks)].content
                          = Strip(SubSeq(text, tk.start + 1, cut))]_vars

\* A chunk was cut after a '. ' although a '? ' lies later in its window,
\* beyond the middle too.
C26_Witness ==
    \E t \in Tasks :
       \E n \in 1..Len(tasks[t].chunks) :
          LET c == tasks[t].chunks[n]
              text == tasks[t].text_content
          IN  /\ c.start + chunk_size < Len(text)
              /\ c.end < c.start + chunk_size
              /\ <<text[c.end - 1], text[c.end]>> = <<".", " ">>
              /\ \E i \in (c.end + 1)..(c.start + chunk_size - 1) :
                    <<text[i], text[i + 1]>> = <<"?", " ">>

\* The step an execution takes from pc to the next pc.
Step(t, from, to) == tasks[t].pc = from /\ tasks'[t].pc = to

\* C27: processing_progress is one of 0, 20, 40, 80, 100.  An execution
\* sets it to 0 when it starts and then only raises it, one checkpoint at
\* a time: to 20 when extraction has returned, to 40 when the chunker has
\* returned, to 80 when the embedding step has returned, and to 100 in the
\* finalize step, which also sets status completed.
C27_ProgressCheckpoints ==
    [][/\ document'.processing_progress \in {0, 20, 40, 80, 100}
       /\ \A t \in Tasks :
             Running(t)
             => /\ document'.processing_progress >= document.processing_progress
                /\ document'.processing_progress # document.processing_progress
                   => \/ /\ Step(t, "extract", "chunk")
                         /\ document.processing_progress = 0
                         /\ document'.processing_progress = 20
                      \/ /\ Step(t, "loop", "embed")
                         /\ document.processing_progress = 20
                         /\ document'.processing_progress = 40
                      \/ /\ Step(t, "embed", "finalize")
                         /\ document.processing_progress = 40
                         /\ document'.processing_progress = 80
                      \/ /\ tasks[t].pc = "finalize" /\ tasks'[t].result = "success"
                         /\ document.processing_progress = 80
                         /\ document'.processing_progress = 100
                /\ (tasks[t].pc = "finalize" /\ tasks'[t].result = "success")
                   => (document'.processing_progress = 100
                       /\ document'.status = "completed")
                /\ tasks[t].pc = "extract" => document.processing_progress = 0]_vars

\* An execution has gone through every checkpoint and completed a
\* document that has a passage.
C27_Witness ==
    /\ \E t \in Tasks : tasks[t].result = "success"
    /\ document.status = "completed"
    /\ document.processing_progress = 100
    /\ rows # << >>

\* C28: while the document is in processing, an execution of
\* process_document for it is running or waiting to run (queued, or
\* scheduled for a retry).
C28_ProcessingHasWork == document.status = "processing" => Outstanding # {}

\* Execution t is at a DocumentChunk.objects.create that the database
\* refuses: the chunk is not empty and a row of the document has its index.
AtDuplicate(t) ==
    /\ Running(t) /\ tasks[t].pc = "loop"
    /\ tasks[t].start < Len(tasks[t].text_content)
    /\ \E i \in 1..Len(rows) : rows[i].chunk_index = tasks[t].chunk_index
    /\ ChunkText(tasks[t].text_content, tasks[t].start, chunk_size) # << >>

\* C29: with two executions for the document at once, the document is
\* never completed with a chunk_count other than the number of its stored
\* passages, and no execution comes to create a passage whose
\* (document, chunk_index) pair exists.
C29_InterleavingKeepsPassages ==
    /\ document.status = "completed" => document.chunk_count = Len(rows)
    /\ \A t \in DOMAIN tasks : ~AtDuplicate(t)

\* C30: completed and failed are written only to a document that is in
\* processing: an execution that ends in success or failed finds it so,
\* and no step takes the document from another status to one of the two.
C30_TerminalOnlyFromProcessing ==
    [][/\ \A t \in DOMAIN tasks :
             (Running(t) /\ tasks'[t].result \in {"success", "failed"})
             => document.status = "processing"
       /\ (document'.status \in {"completed", "failed"}
           /\ document'.status # document.status)
          => document.status = "processing"]_vars

====
